---- MODULE Spec2Model ----
(***************************************************************************)
(* Model of the vision target estimator:                                   *)
(*   - KF_orientation_unified (Orientation/KF_orientation_unified.cpp):    *)
(*     the [yaw, yaw_rate] Kalman filter, over exact rational arithmetic;   *)
(*   - VTEPosition (Position/VTEPosition.h): the staleness predicates, the *)
(*     validity-mask predicates and the per-cycle bias / timeout logic.     *)
(***************************************************************************)
EXTENDS Integers, Sequences, FiniteSets, TLC

(***************************************************************************)
(* Exact rationals <<n, d>>, d > 0, in lowest terms.  The filter's floats   *)
(* are modelled by their real-number values.                                *)
(***************************************************************************)
Abs(n) == IF n < 0 THEN -n ELSE n

RECURSIVE Gcd(_, _)
Gcd(a, b) == IF b = 0 THEN a ELSE Gcd(b, a % b)

Norm(n, d) ==
    LET s == IF d < 0 THEN -1 ELSE 1
        g == Gcd(Abs(n), Abs(d))
    IN  <<(s * n) \div g, (s * d) \div g>>

R(n) == <<n, 1>>
Zero == R(0)
One == R(1)

\* sums over the least common denominator and products cancelled crosswise
\* first: the same values, with smaller intermediate integers
RAdd(a, b) ==
    LET g == Gcd(a[2], b[2])
    IN  Norm(a[1] * (b[2] \div g) + b[1] * (a[2] \div g), (a[2] \div g) * b[2])
RNeg(a) == <<-a[1], a[2]>>
RSub(a, b) == RAdd(a, RNeg(b))
RMul(a, b) ==
    LET g1 == Gcd(Abs(a[1]), b[2])
        g2 == Gcd(Abs(b[1]), a[2])
    IN  Norm((a[1] \div g1) * (b[1] \div g2), (a[2] \div g2) * (b[2] \div g1))
RInv(a) == IF a[1] < 0 THEN <<-a[2], -a[1]>> ELSE <<a[2], a[1]>>
RDiv(a, b) == RMul(a, RInv(b))
RAbs(a) == <<Abs(a[1]), a[2]>>
RFloor(a) == a[1] \div a[2]
RCeil(a) == -((-a[1]) \div a[2])

\* a < b, by integer parts and then by the reciprocals of the fractional
\* parts, so that no cross product is formed.
RECURSIVE RLess(_, _)
RLess(a, b) ==
    LET fa == RFloor(a)
        fb == RFloor(b)
        ra == a[1] - fa * a[2]
        rb == b[1] - fb * b[2]
    IN  IF fa # fb THEN fa < fb
        ELSE IF rb = 0 THEN FALSE
        ELSE IF ra = 0 THEN TRUE
        ELSE RLess(<<b[2], rb>>, <<a[2], ra>>)

RLeq(a, b) == ~RLess(b, a)

(***************************************************************************)
(* 2-vectors and 2x2 matrices over the rationals (matrix::Vector,          *)
(* matrix::SquareMatrix with State::size = 2).                              *)
(***************************************************************************)
Idx == {1, 2}

Dot(u, v) == RAdd(RMul(u[1], v[1]), RMul(u[2], v[2]))
VecAdd(u, v) == <<RAdd(u[1], v[1]), RAdd(u[2], v[2])>>
VecScale(u, c) == <<RMul(u[1], c), RMul(u[2], c)>>
VecDiv(u, c) == <<RDiv(u[1], c), RDiv(u[2], c)>>
MatVec(m, v) == <<Dot(m[1], v), Dot(m[2], v)>>
Transpose(m) == <<<<m[1][1], m[2][1]>>, <<m[1][2], m[2][2]>>>>
MatMul(a, b) ==
    LET bt == Transpose(b)
    IN  <<<<Dot(a[1], bt[1]), Dot(a[1], bt[2])>>,
          <<Dot(a[2], bt[1]), Dot(a[2], bt[2])>>>>
MatSub(a, b) ==
    <<<<RSub(a[1][1], b[1][1]), RSub(a[1][2], b[1][2])>>,
      <<RSub(a[2][1], b[2][1]), RSub(a[2][2], b[2][2])>>>>
\* column vector times row vector
Outer(u, v) ==
    <<<<RMul(u[1], v[1]), RMul(u[1], v[2])>>,
      <<RMul(u[2], v[1]), RMul(u[2], v[2])>>>>
Diag(v) == <<<<v[1], Zero>>, <<Zero, v[2]>>>>
ZeroVec == <<Zero, Zero>>
ZeroMat == <<ZeroVec, ZeroVec>>

\* matrix::inv of a 2x2 matrix with non-zero determinant
Inv2(m) ==
    LET det == RSub(RMul(m[1][1], m[2][2]), RMul(m[1][2], m[2][1]))
    IN  <<<<RDiv(m[2][2], det), RDiv(RNeg(m[1][2]), det)>>,
          <<RDiv(RNeg(m[2][1]), det), RDiv(m[1][1], det)>>>>

\* pi, as the rational 22/7
Pi == <<22, 7>>
TwoPi == RMul(R(2), Pi)

\* matrix::wrap_pi: the representative of x modulo 2 pi in (-pi, pi]
wrap_pi(x) ==
    LET k == RCeil(RDiv(RSub(x, Pi), TwoPi))
    IN  RSub(x, RMul(R(k), TwoPi))

InRange(x) == RLess(RNeg(Pi), x) /\ RLeq(x, Pi)

\* the state-transition matrix of [yaw, yaw_rate]: yaw += yaw_rate * dt
getPhi(dt) == <<<<One, dt>>, <<Zero, One>>>>

\* the near-zero guard of update(): 1e-6f
InnovCovEps == <<1, 1000000>>

(***************************************************************************)
(* hrt_abstime: unsigned 64-bit microsecond counters, as four 16-bit limbs, *)
(* least significant first, so that differences wrap modulo 2^64.           *)
(***************************************************************************)
Limb == 65536
Limbs == {1, 2, 3, 4}

\* a small natural as a uint64
U64(n) == <<n % Limb, (n \div Limb) % Limb, (n \div Limb) \div Limb, 0>>

U64Max == <<Limb - 1, Limb - 1, Limb - 1, Limb - 1>>

\* carry out of (borrow into) limb i
RECURSIVE Borrow(_, _, _)
Borrow(a, b, i) ==
    IF i = 0 THEN 0
    ELSE IF a[i] - b[i] - Borrow(a, b, i - 1) < 0 THEN 1 ELSE 0

RECURSIVE Carry(_, _, _)
Carry(a, b, i) ==
    IF i = 0 THEN 0
    ELSE IF a[i] + b[i] + Carry(a, b, i - 1) >= Limb THEN 1 ELSE 0

\* a - b modulo 2^64
U64Sub(a, b) == [i \in Limbs |-> (a[i] - b[i] - Borrow(a, b, i - 1) + Limb) % Limb]

\* a + b modulo 2^64
U64Add(a, b) == [i \in Limbs |-> (a[i] + b[i] + Carry(a, b, i - 1)) % Limb]

\* a < b as unsigned integers
U64Less(a, b) ==
    \E i \in Limbs : a[i] < b[i] /\ \A j \in Limbs : j > i => a[j] = b[j]

(***************************************************************************)
(* VTEPosition: timeouts, staleness predicates, validity mask.              *)
(***************************************************************************)
\* static constexpr uint32_t measurement_valid_TIMEOUT_US = 1_s
measurement_valid_TIMEOUT_US == 1000000
\* static constexpr uint32_t measurement_updated_TIMEOUT_US = 100_ms
measurement_updated_TIMEOUT_US == 100000
\* uint32_t _vte_TIMEOUT_US = 3_s
vte_TIMEOUT_US == 3000000

\* enum ObservationValidMask : uint8_t
NO_VALID_DATA == 0
FUSE_TARGET_GPS_POS == 1
FUSE_UAV_GPS_VEL == 2
FUSE_EXT_VIS_POS == 4
FUSE_MISSION_POS == 8
FUSE_TARGET_GPS_VEL == 16
FUSE_UWB == 32

\* bitwise and / or of two uint8 values
RECURSIVE BitAnd(_, _)
BitAnd(a, b) ==
    IF a = 0 \/ b = 0 THEN 0
    ELSE (a % 2) * (b % 2) + 2 * BitAnd(a \div 2, b \div 2)

RECURSIVE BitOr(_, _)
BitOr(a, b) ==
    IF a = 0 THEN b
    ELSE IF b = 0 THEN a
    ELSE (IF a % 2 = 1 \/ b % 2 = 1 THEN 1 ELSE 0) + 2 * BitOr(a \div 2, b \div 2)

VARIABLES
    now,                      \* hrt_absolute_time()
    report_timestamp,         \* the timestamp of a report put to the staleness predicates
    meas_valid,               \* what _is_meas_valid said of it
    meas_updated,             \* what _is_meas_updated said of it
    checked,                  \* whether the predicates have been evaluated
    _pos_rel_gnss_timestamp,  \* _pos_rel_gnss.timestamp
    _estimator_initialized,   \* _estimator_initialized
    _has_timed_out,           \* _has_timed_out
    _last_predict,            \* _last_predict
    _last_update,             \* _last_update
    _bias_set,                \* _bias_set
    bias,                     \* the bias state of the axis filters
    vte_fusion_aid_mask,      \* the validity mask built by the last cycle
    cycles,                   \* number of update() / resetFilter() calls so far
    timeout_seen,             \* since the last reset, some cycle found the time since
                              \* the last successful update above _vte_TIMEOUT_US
    cycle                     \* the last call: which, and the bias and the
                              \* initialized flag before it

measVars == <<report_timestamp, meas_valid, meas_updated, checked>>
vteVars == <<_pos_rel_gnss_timestamp, _estimator_initialized, _has_timed_out,
             _last_predict, _last_update, _bias_set, bias, vte_fusion_aid_mask,
             cycles, timeout_seen, cycle>>

\* _is_meas_valid with <= in place of <
is_meas_valid_inclusive(time_stamp) ==
    ~U64Less(U64(measurement_valid_TIMEOUT_US), U64Sub(now, time_stamp))

\* (hrt_absolute_time() - time_stamp) < measurement_valid_TIMEOUT_US
_is_meas_valid(time_stamp) ==
    U64Less(U64Sub(now, time_stamp), U64(measurement_valid_TIMEOUT_US))

\* (hrt_absolute_time() - time_stamp) < measurement_updated_TIMEOUT_US
_is_meas_updated(time_stamp) ==
    U64Less(U64Sub(now, time_stamp), U64(measurement_updated_TIMEOUT_US))

\* (mask & FUSE_EXT_VIS_POS) || (mask & FUSE_UWB)
_hasNewNonGpsPositionSensorData(mask) ==
    \/ BitAnd(mask, FUSE_EXT_VIS_POS) # 0
    \/ BitAnd(mask, FUSE_UWB) # 0

\* mask & (FUSE_MISSION_POS | FUSE_TARGET_GPS_POS | FUSE_EXT_VIS_POS)
_hasNewPositionSensorData(mask) ==
    BitAnd(mask, BitOr(BitOr(FUSE_MISSION_POS, FUSE_TARGET_GPS_POS), FUSE_EXT_VIS_POS)) # 0

\* _should_set_bias with || in place of &&
should_set_bias_either(mask) ==
    _is_meas_valid(_pos_rel_gnss_timestamp) \/ _hasNewNonGpsPositionSensorData(mask)

\* _is_meas_valid(_pos_rel_gnss.timestamp) && _hasNewNonGpsPositionSensorData(mask)
_should_set_bias(mask) ==
    _is_meas_valid(_pos_rel_gnss_timestamp) /\ _hasNewNonGpsPositionSensorData(mask)

\* the timeout flag recomputed at each call instead of read from the latch
has_timed_out_unlatched ==
    _estimator_initialized /\ U64Less(U64(vte_TIMEOUT_US), U64Sub(now, _last_update))

\* bool has_timed_out() {return _has_timed_out;}
has_timed_out == _has_timed_out

(***************************************************************************)
(* Bounds and input sets of the filter model.                               *)
(***************************************************************************)
MaxCalls == 5
\* operations are explored while the fields' numerators and denominators
\* stay within MaxMag
MaxMag == 1000

\* seeds given by the caller (setState, setStateVar, setH, setNISthreshold)
StateSeeds == {<<R(0), R(0)>>, <<R(3), R(3)>>, <<R(3), R(4)>>, <<R(4), R(0)>>}
VarSeeds == {<<R(0), R(0)>>, <<R(1), R(4)>>}
HSeeds == {<<One, Zero>>, <<Zero, One>>}
NisSeeds == {R(1)}
Dts == {R(0), R(1)}
Meass == {R(1), R(4)}
MeasUncs == {R(0), R(1)}
\* a measurement uncertainty below the guard of update(); it is offered
\* where the prior variance along h is zero, so that S itself is below the guard
TinyUnc == <<1, 2000000>>

VARIABLES
    _state,             \* matrix::Vector<float, 2> _state: [yaw, yaw_rate]
    _sync_state,        \* _sync_state
    _state_covariance,  \* _state_covariance
    _meas_matrix_row_vect, \* _meas_matrix_row_vect (observation row h)
    _innov,             \* _innov
    _innov_cov,         \* _innov_cov (S)
    _nis_threshold,     \* _nis_threshold
    calls,              \* number of calls made so far
    nis_rejected,       \* whether update() has rejected a measurement at its gate
    hist                \* the last two calls, most recent first: what was called,
                        \* with what, what it returned, and the filter before it

kfVars == <<_state, _sync_state, _state_covariance, _meas_matrix_row_vect,
            _innov, _innov_cov, _nis_threshold, calls, nis_rejected, hist>>

(***************************************************************************)
(* The computations of KF_orientation_unified, as functions of the fields.  *)
(***************************************************************************)
WrapAll(v) == <<wrap_pi(v[1]), wrap_pi(v[2])>>

\* predictState without its wrap_pi loop
PredictedStateNoWrap(st, dt) == MatVec(getPhi(dt), st)

\* predictState: _state = phi * _state, then wrap_pi on every component
PredictedState(st, dt) == WrapAll(MatVec(getPhi(dt), st))

\* predictCov with the transpose forgotten: phi * P * phi
PredictedCovNoTranspose(P, dt) == MatMul(MatMul(getPhi(dt), P), getPhi(dt))

\* predictCov: phi * P * phi^T
PredictedCov(P, dt) == MatMul(MatMul(getPhi(dt), P), Transpose(getPhi(dt)))

\* syncState: _sync_state = inv(phi) * _state, then wrap_pi on every component
SyncedState(st, dt) == WrapAll(MatVec(Inv2(getPhi(dt)), st))

\* the guard as an exact comparison with zero
NearZeroExact(S) == S = Zero

\* update(): the zero-division guard, fabsf(_innov_cov) < 1e-6f
NearZero(S) == RLess(RAbs(S), InnovCovEps)

\* update(): beta = _innov / _innov_cov * _innov
Beta(innov, S) == RMul(RDiv(innov, S), innov)

\* the gate with >= in place of >
NisRejectsInclusive(beta, thr) == RLeq(thr, beta)

\* update(): the gate, beta > _nis_threshold
NisRejects(beta, thr) == RLess(thr, beta)

\* update(): kalmanGain = _state_covariance * _meas_matrix_row_vect / _innov_cov
KalmanGain(P, h, S) == VecDiv(MatVec(P, h), S)

\* update(): _state = _state + kalmanGain * _innov, then wrap_pi on every component
UpdatedState(st, K, innov) == WrapAll(VecAdd(st, VecScale(K, innov)))

\* update(): P = P - kalmanGain * h^T * P
UpdatedCov(P, K, h) == MatSub(P, MatMul(Outer(K, h), P))

\* computeInnovCov: (h^T * P * h)(0,0) + meas_unc
InnovCov(P, h, meas_unc) == RAdd(Dot(h, MatVec(P, h)), meas_unc)

\* the innovation taken against the primary state in place of the synced state
InnovFromPrimary(h, sync, meas) == RSub(meas, Dot(h, _state))

\* computeInnov: meas - (h^T * _sync_state)(0,0)
Innov(h, sync, meas) == RSub(meas, Dot(h, sync))

Record(name, a, r) ==
    [op |-> name, arg |-> a, ret |-> r,
     state |-> _state, cov |-> _state_covariance, sync |-> _sync_state]

Push(rec) == IF hist = <<>> THEN <<rec>> ELSE <<rec, hist[1]>>

Small(x) == Abs(x[1]) <= MaxMag /\ x[2] <= MaxMag

AllSmall ==
    /\ \A i \in Idx : Small(_state[i]) /\ Small(_sync_state[i])
    /\ \A i \in Idx : \A j \in Idx : Small(_state_covariance[i][j])
    /\ Small(_innov)
    /\ Small(_innov_cov) \/ _innov_cov = TinyUnc

Calling(rec) ==
    /\ calls < MaxCalls
    /\ AllSmall
    /\ calls' = calls + 1
    /\ hist' = Push(rec)
    /\ UNCHANGED <<now, measVars, vteVars>>

Called(rec) == Calling(rec) /\ UNCHANGED nis_rejected

(***************************************************************************)
(* The operations.                                                          *)
(***************************************************************************)
predictState(dt) ==
    /\ Called(Record("predictState", dt, TRUE))
    /\ _state' = PredictedState(_state, dt)
    /\ UNCHANGED <<_sync_state, _state_covariance, _meas_matrix_row_vect,
                   _innov, _innov_cov, _nis_threshold>>

predictCov(dt) ==
    /\ Called(Record("predictCov", dt, TRUE))
    /\ _state_covariance' = PredictedCov(_state_covariance, dt)
    /\ UNCHANGED <<_state, _sync_state, _meas_matrix_row_vect,
                   _innov, _innov_cov, _nis_threshold>>

update ==
    IF NearZero(_innov_cov)
    THEN /\ Called(Record("update", Zero, FALSE))
         /\ UNCHANGED <<_state, _sync_state, _state_covariance, _meas_matrix_row_vect,
                        _innov, _innov_cov, _nis_threshold>>
    ELSE IF NisRejects(Beta(_innov, _innov_cov), _nis_threshold)
    THEN /\ Calling(Record("update", Zero, FALSE))
         /\ nis_rejected' = TRUE
         /\ UNCHANGED <<_state, _sync_state, _state_covariance, _meas_matrix_row_vect,
                        _innov, _innov_cov, _nis_threshold>>
    ELSE LET kalmanGain == KalmanGain(_state_covariance, _meas_matrix_row_vect, _innov_cov)
         IN  /\ Called(Record("update", Zero, TRUE))
             /\ _state' = UpdatedState(_state, kalmanGain, _innov)
             /\ _state_covariance' =
                    UpdatedCov(_state_covariance, kalmanGain, _meas_matrix_row_vect)
             /\ UNCHANGED <<_sync_state, _meas_matrix_row_vect,
                            _innov, _innov_cov, _nis_threshold>>

syncState(dt) ==
    /\ Called(Record("syncState", dt, TRUE))
    /\ _sync_state' = SyncedState(_state, dt)
    /\ UNCHANGED <<_state, _state_covariance, _meas_matrix_row_vect,
                   _innov, _innov_cov, _nis_threshold>>

computeInnovCov(meas_unc) ==
    /\ Called(Record("computeInnovCov", meas_unc, TRUE))
    /\ _innov_cov' = InnovCov(_state_covariance, _meas_matrix_row_vect, meas_unc)
    /\ UNCHANGED <<_state, _sync_state, _state_covariance, _meas_matrix_row_vect,
                   _innov, _nis_threshold>>

computeInnov(meas) ==
    /\ Called(Record("computeInnov", meas, TRUE))
    /\ _innov' = Innov(_meas_matrix_row_vect, _sync_state, meas)
    /\ UNCHANGED <<_state, _sync_state, _state_covariance, _meas_matrix_row_vect,
                   _innov_cov, _nis_threshold>>

Next ==
    \/ \E dt \in Dts : predictState(dt)
    \/ \E dt \in Dts : predictCov(dt)
    \/ update
    \/ \E dt \in Dts : syncState(dt)
    \/ \E meas_unc \in MeasUncs : computeInnovCov(meas_unc)
    \/ /\ InnovCov(_state_covariance, _meas_matrix_row_vect, Zero) = Zero
       /\ computeInnovCov(TinyUnc)
    \/ \E meas \in Meass : computeInnov(meas)

(***************************************************************************)
(* The estimator cycle of VTEPosition.                                      *)
(***************************************************************************)
MaxCycles == 4
\* time between two cycles, in microseconds
Periods == {U64(500000), U64(1000000), U64(3000001)}
\* validity masks: nothing, each position source alone, a velocity source
\* alone, the target GNSS position together with vision
Masks == {NO_VALID_DATA, FUSE_TARGET_GPS_POS, FUSE_UAV_GPS_VEL, FUSE_EXT_VIS_POS,
          FUSE_MISSION_POS, FUSE_UWB, BitOr(FUSE_TARGET_GPS_POS, FUSE_EXT_VIS_POS)}

\* one cycle of update(): time has advanced by period, the observations
\* marked in mask are valid and fused tells whether some fusion was accepted;
\* a bias estimate, when one is made, is a new value
VTEPosition_update(period, mask, fused) ==
    /\ cycles < MaxCycles
    /\ fused => (_estimator_initialized /\ mask # NO_VALID_DATA)
    /\ cycles' = cycles + 1
    /\ cycle' = [op |-> "update", bias |-> bias, initialized |-> _estimator_initialized]
    /\ now' = U64Add(now, period)
    /\ vte_fusion_aid_mask' = mask
    /\ _pos_rel_gnss_timestamp' =
           IF BitAnd(mask, FUSE_TARGET_GPS_POS) # 0 THEN now' ELSE _pos_rel_gnss_timestamp
    /\ IF ~_estimator_initialized
       THEN \* initializeEstimator
            /\ _estimator_initialized' = _hasNewPositionSensorData(mask)
            /\ _last_update' = IF _hasNewPositionSensorData(mask) THEN now' ELSE _last_update
            /\ _last_predict' = IF _hasNewPositionSensorData(mask) THEN now' ELSE _last_predict
            /\ UNCHANGED <<bias, _bias_set, _has_timed_out, timeout_seen>>
       ELSE \* predict, update the bias, fuse, check the timeout
            /\ _last_predict' = now'
            /\ bias' = IF (_should_set_bias(mask))' THEN bias + 1 ELSE bias
            /\ _bias_set' = (_bias_set \/ (_should_set_bias(mask))')
            /\ _last_update' = IF fused THEN now' ELSE _last_update
            /\ LET late == U64Less(U64(vte_TIMEOUT_US), U64Sub(now', _last_update'))
               IN  /\ _has_timed_out' = (_has_timed_out \/ late)
                   /\ timeout_seen' = (timeout_seen \/ late)
            /\ UNCHANGED _estimator_initialized
    /\ UNCHANGED <<measVars, kfVars>>

resetFilter ==
    /\ cycles < MaxCycles
    /\ cycles' = cycles + 1
    /\ cycle' = [op |-> "resetFilter", bias |-> bias, initialized |-> _estimator_initialized]
    /\ _estimator_initialized' = FALSE
    /\ _bias_set' = FALSE
    /\ _has_timed_out' = FALSE
    /\ timeout_seen' = FALSE
    /\ UNCHANGED <<now, _pos_rel_gnss_timestamp, _last_predict, _last_update, bias,
                   vte_fusion_aid_mask>>
    /\ UNCHANGED <<measVars, kfVars>>

\* the members of a constructed VTEPosition
InitVTE ==
    /\ now = U64(0)
    /\ _pos_rel_gnss_timestamp = U64(0)
    /\ _estimator_initialized = FALSE
    /\ _has_timed_out = FALSE
    /\ _last_predict = U64(0)
    /\ _last_update = U64(0)
    /\ _bias_set = FALSE
    /\ bias = 0
    /\ vte_fusion_aid_mask = NO_VALID_DATA
    /\ cycles = 0
    /\ timeout_seen = FALSE
    /\ cycle = [op |-> "none", bias |-> 0, initialized |-> FALSE]

InitMeas ==
    /\ report_timestamp = U64(0)
    /\ meas_valid = FALSE
    /\ meas_updated = FALSE
    /\ checked = FALSE

\* a filter as constructed: every field zero
InitKF ==
    /\ _state = ZeroVec
    /\ _sync_state = ZeroVec
    /\ _state_covariance = ZeroMat
    /\ _meas_matrix_row_vect = ZeroVec
    /\ _innov = Zero
    /\ _innov_cov = Zero
    /\ _nis_threshold = Zero
    /\ calls = 0
    /\ nis_rejected = FALSE
    /\ hist = <<>>

NextVTE ==
    \/ \E period \in Periods : \E mask \in Masks : \E fused \in BOOLEAN :
           VTEPosition_update(period, mask, fused)
    \/ resetFilter

(***************************************************************************)
(* The staleness predicates on their own.                                   *)
(***************************************************************************)
\* timestamps around the two horizons and around the ends of the counter
Times ==
    {U64(0), U64(1), U64(99999), U64(100000), U64(100001), U64(999999),
     U64(1000000), U64(1000001), U64(2000000),
     U64Sub(U64(0), U64(1000000)), U64Sub(U64(0), U64(100000)), U64Max}

CheckReport ==
    /\ ~checked
    /\ checked' = TRUE
    /\ meas_valid' = _is_meas_valid(report_timestamp)
    /\ meas_updated' = _is_meas_updated(report_timestamp)
    /\ UNCHANGED <<now, report_timestamp, kfVars, vteVars>>

vars == <<kfVars, now, measVars, vteVars>>

\* A constructed filter (every field zero) seeded by its caller, beside a
\* constructed, idle position estimator.
Init ==
    /\ _state \in StateSeeds
    /\ _sync_state = ZeroVec
    /\ _state_covariance \in {Diag(v) : v \in VarSeeds}
    /\ _meas_matrix_row_vect \in HSeeds
    /\ _innov = Zero
    /\ _innov_cov = Zero
    /\ _nis_threshold \in NisSeeds
    /\ calls = 0
    /\ nis_rejected = FALSE
    /\ hist = <<>>
    /\ InitVTE
    /\ InitMeas

\* the orientation filter
Spec == Init /\ [][Next]_vars

\* the position estimator's cycle
InitCycle == InitKF /\ InitVTE /\ InitMeas
SpecVTE == InitCycle /\ [][NextVTE]_vars

\* the staleness predicates
InitReports ==
    /\ now \in Times
    /\ report_timestamp \in Times
    /\ meas_valid = FALSE
    /\ meas_updated = FALSE
    /\ checked = FALSE
    /\ InitKF
    /\ _pos_rel_gnss_timestamp = U64(0)
    /\ _estimator_initialized = FALSE
    /\ _has_timed_out = FALSE
    /\ _last_predict = U64(0)
    /\ _last_update = U64(0)
    /\ _bias_set = FALSE
    /\ bias = 0
    /\ vte_fusion_aid_mask = NO_VALID_DATA
    /\ cycles = 0
    /\ timeout_seen = FALSE
    /\ cycle = [op |-> "none", bias |-> 0, initialized |-> FALSE]
NextMeas == CheckReport
SpecMeas == InitReports /\ [][NextMeas]_vars

(***************************************************************************)
(* Properties of the filter.                                                *)
(***************************************************************************)
After(name) == hist # <<>> /\ hist[1].op = name
Returned(r) == hist[1].ret = r
FilterUnchanged == _state = hist[1].state /\ _state_covariance = hist[1].cov
\* update() leaves _innov, _innov_cov and the observation row alone, so after
\* an update they are the values the update read.
NIS == RDiv(RMul(_innov, _innov), _innov_cov)
Corrected ==
    LET K == KalmanGain(hist[1].cov, _meas_matrix_row_vect, _innov_cov)
    IN  /\ _state = WrapAll(VecAdd(hist[1].state, VecScale(K, _innov)))
        /\ _state_covariance =
               MatSub(hist[1].cov, MatMul(Outer(K, _meas_matrix_row_vect), hist[1].cov))

\* C1, as stated: whenever the stored innovation covariance S is less than
\* 1e-6, update() returns false and leaves state and covariance as they were.
C1_SignedGuard ==
    (After("update") /\ RLess(_innov_cov, InnovCovEps))
        => (Returned(FALSE) /\ FilterUnchanged)

\* C1, amended: whenever the absolute value of the stored innovation
\* covariance S is less than 1e-6, update() returns false and leaves the state
\* vector and the covariance matrix exactly as they were before the call.
C1_NearZeroRejected ==
    (After("update") /\ RLess(RAbs(_innov_cov), InnovCovEps))
        => (Returned(FALSE) /\ FilterUnchanged)

\* update() was called with a non-zero S below the guard
C1_Witness ==
    /\ After("update")
    /\ _innov_cov = TinyUnc
    /\ Returned(FALSE)

\* C2: after update() with |S| >= 1e-6, if innovation*innovation/S exceeds
\* the NIS threshold the call returned false and state and covariance are
\* unchanged, and if it is at or below the threshold the call returned true
\* and the Kalman correction was applied to state and covariance; with
\* |S| < 1e-6 the call returned false and changed nothing, whatever the
\* normalized innovation.
C2_NisGate ==
    After("update") =>
        IF RLess(RAbs(_innov_cov), InnovCovEps)
        THEN Returned(FALSE) /\ FilterUnchanged
        ELSE /\ RLess(_nis_threshold, NIS) => (Returned(FALSE) /\ FilterUnchanged)
             /\ RLeq(NIS, _nis_threshold) => (Returned(TRUE) /\ Corrected)

\* an update was rejected by the gate, a new innovation was computed and the
\* next update was accepted and moved the state
C2_Witness ==
    /\ After("update")
    /\ Returned(TRUE)
    /\ _state # hist[1].state
    /\ nis_rejected

\* C3, as stated: after predictState and after any update the yaw lies in
\* (-pi, pi], and after syncState the synced yaw does.
C3_AfterAnyUpdate ==
    /\ (After("predictState") \/ After("update")) => InRange(_state[1])
    /\ After("syncState") => InRange(_sync_state[1])

\* C3, amended: after predictState and after an update() that returned true
\* every component of the state lies in (-pi, pi], and after syncState every
\* component of the synced state does.
C3_Wrapped ==
    /\ (After("predictState") \/ (After("update") /\ Returned(TRUE)))
           => \A i \in Idx : InRange(_state[i])
    /\ After("syncState") => \A i \in Idx : InRange(_sync_state[i])

\* predictState propagated the yaw past pi
C3_Witness ==
    /\ After("predictState")
    /\ ~InRange(MatVec(getPhi(hist[1].arg), hist[1].state)[1])
    /\ InRange(hist[1].state[1])

\* C4: syncState(dt) called right after predictState(dt), with the same dt,
\* yields a synced state equal to the state held before predictState.  Stated
\* for the pre-prediction states whose yaw is already wrapped, as the filter
\* keeps it, and whose yaw rate is any value.
C4_RoundTrip ==
    (/\ Len(hist) = 2
     /\ hist[1].op = "syncState"
     /\ hist[2].op = "predictState"
     /\ hist[1].arg = hist[2].arg
     /\ InRange(hist[2].state[1]))
        => _sync_state = hist[2].state

\* C5: the covariance matrix is symmetric in every state reached from a
\* symmetric seed by predictCov and update calls.
Symmetric(P) == P[1][2] = P[2][1]
StrictlyBetween(x, a, b) ==
    \/ RLess(a, x) /\ RLess(x, b)
    \/ RLess(b, x) /\ RLess(x, a)
C6_TowardMeasurement ==
    (/\ After("update")
     /\ Returned(TRUE)
     /\ _meas_matrix_row_vect = <<Zero, One>>
     /\ RLess(Zero, hist[1].cov[2][2])
     /\ RLess(hist[1].cov[2][2], _innov_cov)
     /\ hist[1].sync = hist[1].state
     /\ _innov # Zero)
        => StrictlyBetween(_state[2], hist[1].state[2], RAdd(hist[1].state[2], _innov))

(***************************************************************************)
(* Properties of the position estimator's cycle and staleness predicates.   *)
(***************************************************************************)
HasBit(mask, bit) == (mask \div bit) % 2 = 1
\* age of a timestamp, modulo 2^64
Age(time_stamp) == U64Sub(now, time_stamp)
AtLeast(a, b) == ~U64Less(a, b)

C8_AnyPositionSource ==
    (cycle.op = "update" /\ ~cycle.initialized) =>
        LET any == \/ HasBit(vte_fusion_aid_mask, 8)
                   \/ HasBit(vte_fusion_aid_mask, 1)
                   \/ HasBit(vte_fusion_aid_mask, 4)
                   \/ HasBit(vte_fusion_aid_mask, 32)
        IN  /\ _hasNewPositionSensorData(vte_fusion_aid_mask) <=> any
            /\ _estimator_initialized <=> any

C10_FutureAbsent ==
    checked =>
        /\ meas_valid <=> U64Less(Age(report_timestamp), U64(1000000))
        /\ meas_updated <=> U64Less(Age(report_timestamp), U64(100000))
        /\ AtLeast(Age(report_timestamp), U64(1000000)) => ~meas_valid
        /\ U64Less(now, report_timestamp) => ~meas_valid
        /\ meas_updated => meas_valid

\* C10, amended: as stated, but a report whose timestamp is ahead of the
\* current time is not valid when it is ahead by at most 2^64 - 10^6 us (one
\* further ahead wraps to an age below the horizon and is valid).
C10_Staleness ==
    checked =>
        /\ meas_valid <=> U64Less(Age(report_timestamp), U64(1000000))
        /\ meas_updated <=> U64Less(Age(report_timestamp), U64(100000))
        /\ AtLeast(Age(report_timestamp), U64(1000000)) => ~meas_valid
        /\ (/\ U64Less(now, report_timestamp)
            /\ ~U64Less(U64Sub(U64(0), U64(1000000)), U64Sub(report_timestamp, now)))
               => ~meas_valid
        /\ meas_updated => meas_valid

\* a report stamped ahead of the current time was checked and found absent
C10_Witness ==
    /\ checked
    /\ U64Less(now, report_timestamp)
    /\ ~meas_valid

(***************************************************************************)
(* Frame of the measurement-side operations.                                *)
(***************************************************************************)
\* a filter seeded with a non-zero state and positive variances: the synced
\* state, still zero, differs from the primary state
InitFrame ==
    /\ _state \in {st \in StateSeeds : st[1] # Zero /\ st[2] # Zero}
    /\ _sync_state = ZeroVec
    /\ _state_covariance \in {Diag(v) : v \in {w \in VarSeeds : w[1] # Zero}}
    /\ _meas_matrix_row_vect \in HSeeds
    /\ _innov = Zero
    /\ _innov_cov = Zero
    /\ _nis_threshold \in NisSeeds
    /\ calls = 0
    /\ nis_rejected = FALSE
    /\ hist = <<>>
    /\ InitVTE
    /\ InitMeas

\* the orientation filter from such a seed
SpecFrame == InitFrame /\ [][Next]_vars

\* this step is a call of the operation name
Step(name) == calls' = calls + 1 /\ hist'[1].op = name

\* C11: every syncState(dt) step leaves the primary state and the covariance
\* unchanged and writes only the synced state (the wrapped inverse-transition
\* image of the primary state); every computeInnov(meas) step writes only the
\* stored innovation, which is meas minus the observation row applied to the
\* synced state (not the primary state); every computeInnovCov(meas_unc) step
\* writes only the stored innovation covariance, h^T P h + meas_unc.
C11_Frame ==
    [][ /\ Step("syncState") =>
              /\ UNCHANGED <<_state, _state_covariance, _meas_matrix_row_vect,
                             _innov, _innov_cov, _nis_threshold>>
              /\ _sync_state' =
                     WrapAll(MatVec(Inv2(getPhi(hist'[1].arg)), _state))
        /\ Step("computeInnov") =>
              /\ UNCHANGED <<_state, _state_covariance, _meas_matrix_row_vect,
                             _sync_state, _innov_cov, _nis_threshold>>
              /\ _innov' = RSub(hist'[1].arg,
                                Dot(_meas_matrix_row_vect, _sync_state))
        /\ Step("computeInnovCov") =>
              /\ UNCHANGED <<_state, _state_covariance, _meas_matrix_row_vect,
                             _sync_state, _innov, _nis_threshold>>
              /\ _innov_cov' =
                     RAdd(Dot(_meas_matrix_row_vect,
                              MatVec(_state_covariance, _meas_matrix_row_vect)),
                          hist'[1].arg)
      ]_vars

\* computeInnov was called right after a syncState that left the synced state
\* different from the primary state in the observed component, and the stored
\* innovation is the one against the synced state
C11_Witness ==
    /\ Len(hist) = 2
    /\ hist[1].op = "computeInnov"
    /\ hist[2].op = "syncState"
    /\ FilterUnchanged
    /\ Dot(_meas_matrix_row_vect, _sync_state) # Dot(_meas_matrix_row_vect, _state)
    /\ _innov = RSub(hist[1].arg, Dot(_meas_matrix_row_vect, _sync_state))
    /\ _innov # RSub(hist[1].arg, Dot(_meas_matrix_row_vect, _state))

====
